---- MODULE Spec2Model ----
(***************************************************************************)
(* The realtime session adapter of the tutoring application: the React     *)
(* hook useRealtime (two revisions of it live in the repository) together  *)
(* with the module-level playback scheduler it calls.  One action per      *)
(* callback or continuation of an async function; the browser event loop   *)
(* runs them one at a time.                                                *)
(***************************************************************************)
EXTENDS Integers, Sequences, FiniteSets, TLC

\* ---------------------------------------------------------------- bounds
MaxSockets  == 2   \* WebSocket objects created in one behaviour
MaxCaptures == 2   \* microphone captures (getUserMedia grants) in one behaviour
MaxPending  == 1   \* connect() calls awaiting the token; startRecording() calls awaiting the microphone
MaxTime     == 2   \* largest value of the playback context's clock
MaxDur      == 1   \* largest duration of one decoded audio chunk
MaxDeltas   == 1   \* transcript deltas accumulated at one time
MaxCalls    == 2   \* function-call events in one behaviour
MaxSamples  == 4   \* samples in one audio buffer handed to resampleAudio
MaxMessages == 2   \* messages saved to the conversation in one behaviour

\* The sample rate the service expects (targetSampleRate).
TargetRate == 24000

Sockets  == 1..MaxSockets
Captures == 1..MaxCaptures

\* The two revisions of the hook: 1 = part_009 lines 1-468, 2 = lines 470-1091.
Variants == {1, 2}

\* Transcript fragments the service sends, and the transcripts an item can carry.
Deltas == {"a", "b"}
Transcripts == UNION {[1..n -> Deltas] : n \in 0..MaxDeltas}

VARIABLES
  variant,                  \* which revision of the hook is running
  \* React state
  isConnected, isRecording, error,
  \* refs of the hook
  wsRef,                    \* 0 = null, else the socket held
  streamRef, audioContextRef, processorRef,   \* 0 = null, else a capture
  currentTranscriptRef,     \* sequence of deltas ('' = <<>>)
  currentResponseIdRef,     \* FALSE = null, TRUE = an id
  assistantMessageSentRef, userTranscriptRef, recognitionRef,
  \* module-level playback state
  playbackAudioContext, audioQueue, nextPlayTime,
  \* environment: browser and service
  readyState,               \* of every WebSocket object, numbered in order of creation
  pendingConnect,           \* connect() calls awaiting fetch('/api/realtime')
  pendingMic,               \* startRecording() calls awaiting getUserMedia
  live,                     \* captures whose tracks run and whose processor fires
  nCaptures,                \* captures created so far
  currentTime,              \* clock of the playback AudioContext
  sessionCreated,           \* sockets on which the service has sent session.created
  \* observation of the last step
  op,                       \* the callback that ran
  out,                      \* wire messages it sent, in order: <<socket, type>>
  cbs,                      \* caller callbacks it invoked, in order
  again,                    \* the step before it ran the same callback
  arg,                      \* the argument it was handed: an error message, a text ("" otherwise)
  \* function-call round trips and the resampler
  fetches,                  \* requests to /api/functions in flight: <<socket, call_id>>
  nCalls,                   \* function-call events received so far (the last call_id)
  resampleIn, resampleRate, resampleOut,   \* the last resampleAudio call
  \* the chat page, the client cache and the conversation on the server
  stored,                   \* messages the server holds for the conversation
  cacheData,                \* the cache entry of the conversation: <<>> = none, else <<n>>,
                            \* a copy with n messages
  cacheFresh,               \* the entry is younger than the cache's time to live
  loading,                  \* loadConversation() awaits fetch('/api/conversations/id')
  messages,                 \* how many messages the page shows
  sending,                  \* handleSendText() past its POST: <<text, isConnected it saw>>
  \* POST /api/functions
  request, response,        \* the last request handled and its answer
  executed,                 \* functions run so far: <<name, userId, conversationId>>
  \* history
  inFlight,                 \* the latest response: "none" | "active" | "cancelled"
  asstCount,                \* assistant onMessage calls since the last response.created
  streamed,                 \* transcript deltas arrived since then and were not cancelled
  doneReported,             \* a transcript-done event has reported a streamed transcript since then
  itemReported,             \* an item-done event has reported a transcript since then
  lateDelta,                \* a transcript delta arrived after such a completion event
  sinceCreated,             \* the transcript deltas received since the last response.created
  updates,                  \* session.update messages sent per socket (2 = two or more)
  stopped,                  \* stopRecording() has returned and startRecording() was not called since
  abandoned,                \* disconnect() was called while a connect() awaited the token or
                            \* the handshake, and connect() was not called since
  userCount,                \* user onMessage calls since the last startRecording() (2 = two or more)
  lastSched                 \* <<start, duration>> of the last chunk scheduled, <<>> after a stop

hookVars == <<isConnected, isRecording, error, wsRef, streamRef, audioContextRef,
              processorRef, currentTranscriptRef, currentResponseIdRef,
              assistantMessageSentRef, userTranscriptRef, recognitionRef>>
playVars == <<playbackAudioContext, audioQueue, nextPlayTime, currentTime, lastSched>>
envVars  == <<readyState, pendingConnect, pendingMic, live, nCaptures, sessionCreated>>
obsVars  == <<op, out, cbs, again, arg, updates, stopped, abandoned, userCount>>
callVars == <<fetches, nCalls>>
dspVars  == <<resampleIn, resampleRate, resampleOut>>
respHist == <<inFlight, asstCount, streamed, doneReported, itemReported, lateDelta,
              sinceCreated>>
pageVars == <<stored, cacheData, cacheFresh, loading, messages, sending>>
apiVars  == <<request, response, executed>>
vars == <<variant, hookVars, playVars, envVars, obsVars, respHist, callVars, dspVars,
          pageVars, apiVars>>

\* ---------------------------------------------------------------- helpers
Msg(s, type) == <<s, type>>
Count(seq, x) == Cardinality({i \in 1..Len(seq) : seq[i] = x})
Cap(n, m) == IF n > m THEN m ELSE n

\* wsRef.current?.readyState === WebSocket.OPEN
WsOpen == wsRef # 0 /\ readyState[wsRef] = "OPEN"

\* WebSocket objects created so far.
NumSockets == Cardinality({s \in Sockets : readyState[s] # "NONE"})

\* ws.send() on the socket of a handler's own closure: a socket that is no longer
\* OPEN (CLOSING, CLOSED) drops the frame.
Send(s, type) == IF readyState[s] = "OPEN" THEN <<Msg(s, type)>> ELSE <<>>

\* A connect() call is under way: it awaits the token, or the socket it created
\* and stored is still connecting.
Connecting ==
  \/ pendingConnect > 0
  \/ wsRef # 0 /\ readyState[wsRef] = "CONNECTING"

\* onMessage calls with role user among the callbacks a step made.
UserMessages(called) ==
  Cardinality({i \in 1..Len(called) : called[i][1] = "onMessage" /\ called[i][2] = "user"})

\* What a step shows: the callback that ran, the argument it was handed (the
\* message of an error event, the text of sendMessage), the frames it sent, the
\* callbacks it made.
ObsArg(o, a, sent, called) ==
  /\ op' = o /\ out' = sent /\ cbs' = called
  /\ arg' = a
  /\ again' = (op = o)
  /\ updates' = [s \in Sockets |->
                   Cap(updates[s] + Count(sent, Msg(s, "session.update")), 2)]
  /\ stopped' = IF o = "stopRecording" THEN TRUE
                ELSE IF o = "startRecording" THEN FALSE ELSE stopped
  /\ abandoned' = IF o = "disconnect" THEN Connecting
                  ELSE IF o = "connect" THEN FALSE ELSE abandoned
  /\ userCount' = IF o = "startRecording" THEN 0
                  ELSE Cap(userCount + UserMessages(called), 2)

\* A step of a callback that is handed no such argument.
Obs(o, sent, called) == ObsArg(o, "", sent, called)

\* People with an account, and "" for nobody (no session, no userId argument).
Users == {"alice", "mallory"}
MaybeUsers == Users \cup {""}

\* Conversations, and "" for an id that is not given.
MaybeConversations == {"", "c1"}

\* Function names a request can carry: one that handleFunctionCall knows and
\* one that falls to its default case.
FunctionNames == {"log_study_session", "no_such_function"}
KnownFunctions == {"log_study_session"}

\* Before the first request to /api/functions.
NoRequest == [session |-> "", name |-> "", userId |-> "", conversationId |-> "",
              argsConversationId |-> ""]
NoResponse == [status |-> 0, ran |-> <<>>]

\* ------------------------------------------------------------------- Init
\* The hook after its first render: nothing connected, nothing recorded.
Init ==
  /\ variant \in Variants
  /\ isConnected = FALSE /\ isRecording = FALSE /\ error = "null"
  /\ wsRef = 0 /\ streamRef = 0 /\ audioContextRef = 0 /\ processorRef = 0
  /\ currentTranscriptRef = <<>> /\ currentResponseIdRef = FALSE
  /\ assistantMessageSentRef = FALSE /\ userTranscriptRef = "" /\ recognitionRef = FALSE
  /\ playbackAudioContext = FALSE /\ audioQueue = <<>> /\ nextPlayTime = 0
  /\ currentTime = 0 /\ lastSched = <<>>
  /\ readyState = [s \in Sockets |-> "NONE"]
  /\ pendingConnect = 0 /\ pendingMic = 0 /\ live = {} /\ nCaptures = 0
  /\ sessionCreated = {}
  /\ op = "init" /\ out = <<>> /\ cbs = <<>> /\ again = FALSE /\ updates = [s \in Sockets |-> 0]
  /\ inFlight = "none" /\ asstCount = 0 /\ streamed = FALSE
  /\ doneReported = FALSE /\ itemReported = FALSE /\ lateDelta = FALSE
  /\ sinceCreated = <<>> /\ arg = ""
  /\ stopped = FALSE /\ abandoned = FALSE /\ userCount = 0
  /\ fetches = {} /\ nCalls = 0
  /\ resampleIn = <<>> /\ resampleRate = TargetRate /\ resampleOut = <<>>
  /\ stored = 0 /\ cacheData = <<>> /\ cacheFresh = FALSE /\ loading = FALSE
  /\ messages = 0 /\ sending = <<>>
  /\ request = NoRequest /\ response = NoResponse /\ executed = {}

\* The hook once its first connection stands: connect() was called, the token
\* arrived, socket 1 opened and the service announced the session.
InitConnected ==
  /\ variant \in Variants
  /\ isConnected = TRUE /\ isRecording = FALSE /\ error = "null"
  /\ wsRef = 1 /\ streamRef = 0 /\ audioContextRef = 0 /\ processorRef = 0
  /\ currentTranscriptRef = <<>> /\ currentResponseIdRef = FALSE
  /\ assistantMessageSentRef = FALSE /\ userTranscriptRef = "" /\ recognitionRef = FALSE
  /\ playbackAudioContext = FALSE /\ audioQueue = <<>> /\ nextPlayTime = 0
  /\ currentTime = 0 /\ lastSched = <<>>
  /\ readyState = [s \in Sockets |-> IF s = 1 THEN "OPEN" ELSE "NONE"]
  /\ pendingConnect = 0 /\ pendingMic = 0 /\ live = {} /\ nCaptures = 0
  /\ sessionCreated = {1}
  /\ op = "session.created"
  /\ out = (IF variant = 2 THEN <<Msg(1, "session.update")>> ELSE <<>>)
  /\ cbs = <<>> /\ again = FALSE /\ updates = [s \in Sockets |-> IF s = 1 THEN 1 ELSE 0]
  /\ inFlight = "none" /\ asstCount = 0 /\ streamed = FALSE
  /\ doneReported = FALSE /\ itemReported = FALSE /\ lateDelta = FALSE
  /\ sinceCreated = <<>> /\ arg = ""
  /\ stopped = FALSE /\ abandoned = FALSE /\ userCount = 0
  /\ fetches = {} /\ nCalls = 0
  /\ resampleIn = <<>> /\ resampleRate = TargetRate /\ resampleOut = <<>>
  /\ stored = 0 /\ cacheData = <<>> /\ cacheFresh = FALSE /\ loading = FALSE
  /\ messages = 0 /\ sending = <<>>
  /\ request = NoRequest /\ response = NoResponse /\ executed = {}

\* ------------------------------------------------------- playback scheduler
\* A plausible slip: the cursor is reset while the sources stay queued and playing.
stopAudioPlaybackCursorOnly ==
  /\ audioQueue' = audioQueue
  /\ nextPlayTime' = 0
  /\ lastSched' = <<>>

\* stopAudioPlayback(): every queued source is stopped, the queue and the cursor reset.
stopAudioPlayback ==
  /\ audioQueue' = <<>>
  /\ nextPlayTime' = 0
  /\ lastSched' = <<>>

\* cleanupAudioPlayback(): stopAudioPlayback(), then the context is closed and dropped.
cleanupAudioPlayback ==
  /\ stopAudioPlayback
  /\ playbackAudioContext' = FALSE
  /\ currentTime' = 0

\* A plausible slip: every chunk starts at the context's current time.
ScheduleStartNow(now) == now

\* The start time playAudioChunk gives a chunk: the cursor, pulled up to the
\* context's current time when it lags behind.
ScheduleStart(now) == IF nextPlayTime < now THEN now ELSE nextPlayTime

\* playbackAudioContext.currentTime as playAudioChunk reads it: a context created
\* by this very call starts its clock at 0.
PlaybackNow == IF playbackAudioContext THEN currentTime ELSE 0

\* playAudioChunk(base64Audio) for a payload that decodes to n units of audio;
\* n = 0 stands for a payload that does not decode to a non-empty buffer (odd
\* byte count, zero samples): a constructor throws and the catch logs it, after
\* the context has been created and before the cursor is touched.
playAudioChunk(n) ==
  /\ playbackAudioContext' = TRUE
  /\ currentTime' = PlaybackNow
  /\ IF n = 0
       THEN UNCHANGED <<audioQueue, nextPlayTime, lastSched>>
       ELSE /\ audioQueue' = Append(audioQueue, <<ScheduleStart(PlaybackNow), n>>)
            /\ nextPlayTime' = ScheduleStart(PlaybackNow) + n
            /\ lastSched' = <<ScheduleStart(PlaybackNow), n>>

\* ------------------------------------------------------------- connect()
\* connect() up to its first await: fetch('/api/realtime') is in flight.
Connect ==
  /\ pendingConnect < MaxPending
  /\ NumSockets + pendingConnect < MaxSockets
  /\ pendingConnect' = pendingConnect + 1
  /\ Obs("connect", <<>>, <<>>)
  /\ UNCHANGED <<variant, pageVars, apiVars, callVars, dspVars, hookVars, playVars, respHist>>
  /\ UNCHANGED <<readyState, pendingMic, live, nCaptures, sessionCreated>>

\* The token arrives: new WebSocket(...), the handlers are attached, wsRef.current = ws.
TokenOk ==
  /\ pendingConnect > 0
  /\ readyState' = [readyState EXCEPT ![NumSockets + 1] = "CONNECTING"]
  /\ wsRef' = NumSockets + 1
  /\ pendingConnect' = pendingConnect - 1
  /\ Obs("tokenOk", <<>>, <<>>)
  /\ UNCHANGED <<variant, pageVars, apiVars, callVars, dspVars, playVars, respHist>>
  /\ UNCHANGED <<isConnected, isRecording, error, streamRef, audioContextRef,
                 processorRef, currentTranscriptRef, currentResponseIdRef,
                 assistantMessageSentRef, userTranscriptRef, recognitionRef>>
  /\ UNCHANGED <<pendingMic, live, nCaptures, sessionCreated>>

\* A plausible slip: the catch block only records the error.
TokenFailSilent == <<>>

\* The callback the catch block of connect() makes: config.onError(err).
TokenFailCallbacks == <<<<"onError", "token">>>>

\* The token request fails (!response.ok or fetch throws): the catch block.
TokenFail ==
  /\ pendingConnect > 0
  /\ pendingConnect' = pendingConnect - 1
  /\ error' = "token"
  /\ Obs("tokenFail", <<>>, TokenFailCallbacks)
  /\ UNCHANGED <<variant, pageVars, apiVars, callVars, dspVars, playVars, respHist>>
  /\ UNCHANGED <<isConnected, isRecording, wsRef, streamRef, audioContextRef,
                 processorRef, currentTranscriptRef, currentResponseIdRef,
                 assistantMessageSentRef, userTranscriptRef, recognitionRef>>
  /\ UNCHANGED <<readyState, pendingMic, live, nCaptures, sessionCreated>>

\* A plausible slip: revision 2 keeps revision 1's configuration message in onopen.
OpenFramesBoth(s) == <<Msg(s, "session.update")>>

\* The frames ws.onopen sends: revision 1 configures the session at once,
\* revision 2 waits for session.created.
OpenFrames(s) == IF variant = 1 THEN <<Msg(s, "session.update")>> ELSE <<>>

\* ws.onopen
SocketOpen(s) ==
  /\ readyState[s] = "CONNECTING"
  /\ readyState' = [readyState EXCEPT ![s] = "OPEN"]
  /\ isConnected' = TRUE
  /\ Obs("onopen", OpenFrames(s), <<>>)
  /\ UNCHANGED <<variant, pageVars, apiVars, callVars, dspVars, playVars, respHist>>
  /\ UNCHANGED <<isRecording, error, wsRef, streamRef, audioContextRef,
                 processorRef, currentTranscriptRef, currentResponseIdRef,
                 assistantMessageSentRef, userTranscriptRef, recognitionRef>>
  /\ UNCHANGED <<pendingConnect, pendingMic, live, nCaptures, sessionCreated>>

\* A plausible slip: the handler calls connect() again.
PendingAfterLossRetry == Cap(pendingConnect + 1, MaxPending)

\* The connect() calls in flight after ws.onerror or ws.onclose ran: neither
\* handler calls connect().
PendingAfterLoss == pendingConnect

\* ws.onerror: the connection has failed; its close event is still to come.
SocketError(s) ==
  /\ readyState[s] \in {"CONNECTING", "OPEN"}
  /\ readyState' = [readyState EXCEPT ![s] = "CLOSING"]
  /\ error' = "Connection error"
  /\ isConnected' = FALSE
  /\ pendingConnect' = PendingAfterLoss
  /\ Obs("onerror", <<>>, <<>>)
  /\ UNCHANGED <<variant, pageVars, apiVars, callVars, dspVars, playVars, respHist>>
  /\ UNCHANGED <<isRecording, wsRef, streamRef, audioContextRef,
                 processorRef, currentTranscriptRef, currentResponseIdRef,
                 assistantMessageSentRef, userTranscriptRef, recognitionRef>>
  /\ UNCHANGED <<pendingMic, live, nCaptures, sessionCreated>>

\* ws.onclose
SocketClose(s) ==
  /\ readyState[s] \in {"CONNECTING", "OPEN", "CLOSING"}
  /\ readyState' = [readyState EXCEPT ![s] = "CLOSED"]
  /\ isConnected' = FALSE
  /\ pendingConnect' = PendingAfterLoss
  /\ Obs("onclose", <<>>, <<>>)
  /\ UNCHANGED <<variant, pageVars, apiVars, callVars, dspVars, playVars, respHist>>
  /\ UNCHANGED <<isRecording, error, wsRef, streamRef, audioContextRef,
                 processorRef, currentTranscriptRef, currentResponseIdRef,
                 assistantMessageSentRef, userTranscriptRef, recognitionRef>>
  /\ UNCHANGED <<pendingMic, live, nCaptures, sessionCreated>>

\* ------------------------------------------------------------ disconnect()
\* The socket held is closed and dropped, the capture the refs hold is stopped
\* and dropped, playback is cleaned up, both flags are cleared.  processorRef
\* and recognitionRef are not touched.
Disconnect ==
  /\ readyState' = IF wsRef # 0 /\ readyState[wsRef] \in {"CONNECTING", "OPEN"}
                     THEN [readyState EXCEPT ![wsRef] = "CLOSING"]
                     ELSE readyState
  /\ wsRef' = 0
  /\ live' = (live \ {streamRef}) \ {audioContextRef}
  /\ streamRef' = 0
  /\ audioContextRef' = 0
  /\ cleanupAudioPlayback
  /\ isConnected' = FALSE
  /\ isRecording' = FALSE
  /\ Obs("disconnect", <<>>, <<>>)
  /\ UNCHANGED <<variant, pageVars, apiVars, callVars, dspVars, respHist>>
  /\ UNCHANGED <<error, processorRef, currentTranscriptRef, currentResponseIdRef,
                 assistantMessageSentRef, userTranscriptRef, recognitionRef>>
  /\ UNCHANGED <<pendingConnect, pendingMic, nCaptures, sessionCreated>>

\* ---------------------------------------------------------- startRecording()
\* A plausible slip: the response is cancelled only while a recording is on.
CancelNeededWhenRecording == WsOpen /\ currentResponseIdRef /\ isRecording

\* Whether startRecording() cancels: the socket is open and a response id is held.
CancelNeeded == WsOpen /\ currentResponseIdRef

\* A plausible slip: the input buffer is not cleared.
StartFramesCancelOnly ==
  IF CancelNeeded THEN <<Msg(wsRef, "response.cancel")>> ELSE <<>>

\* The frames startRecording() sends before it asks for the microphone.
StartFrames ==
  IF WsOpen
    THEN (IF CancelNeeded THEN <<Msg(wsRef, "response.cancel")>> ELSE <<>>)
         \o <<Msg(wsRef, "input_audio_buffer.clear")>>
    ELSE <<>>

\* startRecording() up to await getUserMedia: with the socket open, the response
\* whose id is held is cancelled and forgotten with its transcript, the input
\* buffer is cleared and playback stopped; revision 2 also forgets the browser
\* transcript and starts speech recognition (when the browser has one and
\* start() does not throw).
StartRecording ==
  /\ pendingMic < MaxPending
  /\ nCaptures + pendingMic < MaxCaptures
  /\ currentResponseIdRef' = IF CancelNeeded THEN FALSE ELSE currentResponseIdRef
  /\ currentTranscriptRef' = IF CancelNeeded THEN <<>> ELSE currentTranscriptRef
  /\ IF WsOpen THEN stopAudioPlayback
               ELSE UNCHANGED <<audioQueue, nextPlayTime, lastSched>>
  /\ IF variant = 2
       THEN /\ userTranscriptRef' = ""
            /\ recognitionRef' \in {TRUE, recognitionRef}
       ELSE UNCHANGED <<userTranscriptRef, recognitionRef>>
  /\ pendingMic' = pendingMic + 1
  /\ inFlight' = IF CancelNeeded /\ inFlight = "active" THEN "cancelled" ELSE inFlight
  /\ streamed' = IF CancelNeeded THEN FALSE ELSE streamed
  /\ Obs("startRecording", StartFrames, <<>>)
  /\ UNCHANGED <<variant, pageVars, apiVars, callVars, dspVars, isConnected, isRecording, error, wsRef, streamRef,
                 audioContextRef, processorRef, assistantMessageSentRef>>
  /\ UNCHANGED <<playbackAudioContext, currentTime>>
  /\ UNCHANGED <<readyState, pendingConnect, live, nCaptures, sessionCreated>>
  /\ UNCHANGED <<asstCount, doneReported, itemReported, lateDelta, sinceCreated>>

\* getUserMedia resolves: the stream, the AudioContext and the ScriptProcessor are
\* created and wired, setIsRecording(true).
MicGranted ==
  /\ pendingMic > 0
  /\ streamRef' = nCaptures + 1
  /\ audioContextRef' = nCaptures + 1
  /\ processorRef' = nCaptures + 1
  /\ live' = live \cup {nCaptures + 1}
  /\ nCaptures' = nCaptures + 1
  /\ pendingMic' = pendingMic - 1
  /\ isRecording' = TRUE
  /\ Obs("micGranted", <<>>, <<>>)
  /\ UNCHANGED <<variant, pageVars, apiVars, callVars, dspVars, playVars, respHist>>
  /\ UNCHANGED <<isConnected, error, wsRef, currentTranscriptRef,
                 currentResponseIdRef, assistantMessageSentRef, userTranscriptRef,
                 recognitionRef>>
  /\ UNCHANGED <<readyState, pendingConnect, sessionCreated>>

\* A plausible slip: setIsRecording(true) runs before the microphone is awaited.
RecordingAfterDenialSet == TRUE

\* isRecording after getUserMedia rejected: setIsRecording(true) was not reached.
RecordingAfterDenial == isRecording

\* getUserMedia rejects: the catch block.
MicDenied ==
  /\ pendingMic > 0
  /\ pendingMic' = pendingMic - 1
  /\ isRecording' = RecordingAfterDenial
  /\ error' = "Failed to access microphone"
  /\ Obs("micDenied", <<>>, <<>>)
  /\ UNCHANGED <<variant, pageVars, apiVars, callVars, dspVars, playVars, respHist>>
  /\ UNCHANGED <<isConnected, wsRef, streamRef, audioContextRef,
                 processorRef, currentTranscriptRef, currentResponseIdRef,
                 assistantMessageSentRef, userTranscriptRef, recognitionRef>>
  /\ UNCHANGED <<readyState, pendingConnect, live, nCaptures, sessionCreated>>

\* processor.onaudioprocess of capture k: one frame, resampled and encoded, is
\* appended when the socket held by wsRef is open.
AudioProcess(k) ==
  /\ k \in live
  /\ Obs("onaudioprocess",
         IF WsOpen THEN <<Msg(wsRef, "input_audio_buffer.append")>> ELSE <<>>, <<>>)
  /\ UNCHANGED <<variant, pageVars, apiVars, callVars, dspVars, hookVars, playVars, envVars, respHist>>

\* recognition.onresult (revision 2): a non-empty browser transcript is kept.
RecognitionResult ==
  /\ variant = 2
  /\ recognitionRef
  /\ userTranscriptRef' = "speech"
  /\ Obs("onresult", <<>>, <<>>)
  /\ UNCHANGED <<variant, pageVars, apiVars, callVars, dspVars, playVars, envVars, respHist>>
  /\ UNCHANGED <<isConnected, isRecording, error, wsRef, streamRef,
                 audioContextRef, processorRef, currentTranscriptRef,
                 currentResponseIdRef, assistantMessageSentRef, recognitionRef>>

\* ----------------------------------------------------------- stopRecording()
\* The frames stopRecording() sends: commit and response.create when the socket is open.
StopFrames ==
  IF WsOpen THEN <<Msg(wsRef, "input_audio_buffer.commit"), Msg(wsRef, "response.create")>>
            ELSE <<>>

\* The user message revision 2 shows at once: the browser transcript or a placeholder.
StopCallbacks ==
  IF variant = 2
    THEN <<<<"onMessage", "user",
             IF userTranscriptRef # "" THEN userTranscriptRef ELSE "[Audio message]">>>>
    ELSE <<>>

\* The processor stopRecording() disconnects: only when a capture context is held too.
StopProcessor == IF processorRef # 0 /\ audioContextRef # 0 THEN {processorRef} ELSE {}

\* stopRecording(): no guard on isRecording in either revision.  The capture the
\* refs hold is torn down, the flag cleared, the frames sent; revision 2 also
\* stops speech recognition and shows the user message.
StopRecording ==
  /\ live' = ((live \ StopProcessor) \ {streamRef}) \ {audioContextRef}
  /\ processorRef' = IF StopProcessor # {} THEN 0 ELSE processorRef
  /\ streamRef' = 0
  /\ audioContextRef' = 0
  /\ IF variant = 2
       THEN userTranscriptRef' = "" /\ recognitionRef' = FALSE
       ELSE UNCHANGED <<userTranscriptRef, recognitionRef>>
  /\ isRecording' = FALSE
  /\ Obs("stopRecording", StopFrames, StopCallbacks)
  /\ UNCHANGED <<variant, pageVars, apiVars, callVars, dspVars, playVars, respHist>>
  /\ UNCHANGED <<isConnected, error, wsRef, currentTranscriptRef,
                 currentResponseIdRef, assistantMessageSentRef>>
  /\ UNCHANGED <<readyState, pendingConnect, pendingMic, nCaptures, sessionCreated>>

\* ------------------------------------------------------------- sendMessage()
\* Texts the caller sends.
Texts == {"hello", "bye"}

\* A plausible slip: the response is requested before the item is created.
SendFramesReversed(text) ==
  IF WsOpen
    THEN <<Msg(wsRef, "response.create"),
           <<wsRef, "conversation.item.create", "user", text>>>>
    ELSE <<>>

\* The frames sendMessage(text) sends: the user message item carrying the text,
\* then the request for a response; nothing unless the socket held is open.
SendFrames(text) ==
  IF WsOpen
    THEN <<<<wsRef, "conversation.item.create", "user", text>>,
           Msg(wsRef, "response.create")>>
    ELSE <<>>

\* sendMessage(text): no ref and no state is written.
SendMessage(text) ==
  /\ ObsArg("sendMessage", text, SendFrames(text), <<>>)
  /\ UNCHANGED <<variant, pageVars, apiVars, callVars, dspVars, hookVars, playVars, envVars, respHist>>

\* ------------------------------------------------- ws.onmessage, by event type
\* Message events are dispatched only while the socket is OPEN.  Each handler is
\* the closure of its own connect() call (ws) over the refs all calls share.

\* session.created, sent by the service once per connection: revision 2 answers
\* with its session.update; revision 1 has no case for it.
SessionCreated(s) ==
  /\ readyState[s] = "OPEN"
  /\ s \notin sessionCreated
  /\ sessionCreated' = sessionCreated \cup {s}
  /\ Obs("session.created",
         IF variant = 2 THEN Send(s, "session.update") ELSE <<>>, <<>>)
  /\ UNCHANGED <<variant, pageVars, apiVars, callVars, dspVars, hookVars, playVars, respHist>>
  /\ UNCHANGED <<readyState, pendingConnect, pendingMic, live, nCaptures>>

\* assistantMessageSentRef after response.created: revision 2 resets it,
\* revision 1 has no such flag.
SentAfterCreated == IF variant = 2 THEN FALSE ELSE assistantMessageSentRef

\* response.created
ResponseCreated(s) ==
  /\ readyState[s] = "OPEN"
  /\ assistantMessageSentRef' = SentAfterCreated
  /\ currentTranscriptRef' = <<>>
  /\ currentResponseIdRef' = TRUE
  /\ inFlight' = "active" /\ asstCount' = 0 /\ streamed' = FALSE
  /\ doneReported' = FALSE /\ itemReported' = FALSE /\ lateDelta' = FALSE
  /\ sinceCreated' = <<>>
  /\ Obs("response.created", <<>>, <<>>)
  /\ UNCHANGED <<variant, pageVars, apiVars, callVars, dspVars, playVars, envVars>>
  /\ UNCHANGED <<isConnected, isRecording, error, wsRef, streamRef,
                 audioContextRef, processorRef, userTranscriptRef, recognitionRef>>

\* A plausible slip: every delta is shown as a message of its own.
DeltaCallbacksPartial(d) == <<<<"onMessage", "assistant", <<d>>>>>>

\* The callbacks the transcript-delta handler makes: none, it only accumulates.
DeltaCallbacks(d) == <<>>

\* response.output_audio_transcript.delta (revision 2: also response.audio_transcript.delta)
TranscriptDelta(s, d) ==
  /\ readyState[s] = "OPEN"
  /\ Len(currentTranscriptRef) < MaxDeltas
  /\ Len(sinceCreated) < MaxDeltas + 1
  /\ currentTranscriptRef' = Append(currentTranscriptRef, d)
  /\ sinceCreated' = Append(sinceCreated, d)
  /\ streamed' = TRUE
  /\ lateDelta' = (lateDelta \/ doneReported \/ itemReported)
  /\ Obs("transcript.delta", <<>>, DeltaCallbacks(d))
  /\ UNCHANGED <<variant, pageVars, apiVars, callVars, dspVars, playVars, envVars>>
  /\ UNCHANGED <<isConnected, isRecording, error, wsRef, streamRef,
                 audioContextRef, processorRef, currentResponseIdRef,
                 assistantMessageSentRef, userTranscriptRef, recognitionRef>>
  /\ UNCHANGED <<inFlight, asstCount, doneReported, itemReported>>

\* Whether the transcript-done handler emits the accumulated transcript.
DoneEmits ==
  /\ currentTranscriptRef # <<>>
  /\ variant = 2 => ~assistantMessageSentRef

\* response.output_audio_transcript.done (revision 2: also response.audio_transcript.done)
TranscriptDone(s) ==
  /\ readyState[s] = "OPEN"
  /\ assistantMessageSentRef' =
       IF variant = 2 /\ DoneEmits THEN TRUE ELSE assistantMessageSentRef
  /\ currentTranscriptRef' = <<>>
  /\ asstCount' = IF DoneEmits THEN Cap(asstCount + 1, 2) ELSE asstCount
  /\ doneReported' = (doneReported \/ streamed)
  /\ Obs("transcript.done", <<>>,
         IF DoneEmits THEN <<<<"onMessage", "assistant", currentTranscriptRef>>>> ELSE <<>>)
  /\ UNCHANGED <<variant, pageVars, apiVars, callVars, dspVars, playVars, envVars>>
  /\ UNCHANGED <<isConnected, isRecording, error, wsRef, streamRef,
                 audioContextRef, processorRef, currentResponseIdRef,
                 userTranscriptRef, recognitionRef>>
  /\ UNCHANGED <<inFlight, streamed, itemReported, lateDelta, sinceCreated>>

\* A plausible slip: the item-done handler emits without looking at the flag.
ItemEmitsUnguarded(t) ==
  /\ variant = 2
  /\ t # <<>>

\* Whether the item-done handler emits the item's transcript t (revision 2 only).
ItemEmits(t) ==
  /\ variant = 2
  /\ t # <<>>
  /\ ~assistantMessageSentRef

\* conversation.item.done of an assistant message whose output_audio content
\* carries the transcript t; revision 1 has no case for it.
ItemDone(s, t) ==
  /\ readyState[s] = "OPEN"
  /\ assistantMessageSentRef' = IF ItemEmits(t) THEN TRUE ELSE assistantMessageSentRef
  /\ currentTranscriptRef' = IF variant = 2 /\ t # <<>> THEN <<>> ELSE currentTranscriptRef
  /\ asstCount' = IF ItemEmits(t) THEN Cap(asstCount + 1, 2) ELSE asstCount
  /\ itemReported' = (itemReported \/ t # <<>>)
  /\ Obs("item.done", <<>>,
         IF ItemEmits(t) THEN <<<<"onMessage", "assistant", t>>>> ELSE <<>>)
  /\ UNCHANGED <<variant, pageVars, apiVars, callVars, dspVars, playVars, envVars>>
  /\ UNCHANGED <<isConnected, isRecording, error, wsRef, streamRef,
                 audioContextRef, processorRef, currentResponseIdRef,
                 userTranscriptRef, recognitionRef>>
  /\ UNCHANGED <<inFlight, streamed, doneReported, lateDelta, sinceCreated>>

\* response.done: both revisions only break; the response id stays held.
ResponseDone(s) ==
  /\ readyState[s] = "OPEN"
  /\ inFlight # "none"
  /\ inFlight' = "none"
  /\ Obs("response.done", <<>>, <<>>)
  /\ UNCHANGED <<variant, pageVars, apiVars, callVars, dspVars, hookVars, playVars, envVars>>
  /\ UNCHANGED <<asstCount, streamed, doneReported, itemReported, lateDelta, sinceCreated>>

\* input_audio_buffer.speech_stopped: revision 2 cancels the response the
\* service's voice detection started; revision 1 has no case.
SpeechStopped(s) ==
  /\ readyState[s] = "OPEN"
  /\ variant = 2
  /\ inFlight' = IF inFlight = "active" THEN "cancelled" ELSE inFlight
  /\ Obs("speech_stopped", Send(s, "response.cancel"), <<>>)
  /\ UNCHANGED <<variant, pageVars, apiVars, callVars, dspVars, hookVars, playVars, envVars>>
  /\ UNCHANGED <<asstCount, streamed, doneReported, itemReported, lateDelta, sinceCreated>>

\* response.output_audio.delta with a payload of n units of audio (0: undecodable)
AudioDelta(s, n) ==
  /\ readyState[s] = "OPEN"
  /\ ScheduleStart(PlaybackNow) + n <= MaxTime + MaxDur
  /\ playAudioChunk(n)
  /\ Obs("audio.delta", <<>>, <<>>)
  /\ UNCHANGED <<variant, pageVars, apiVars, callVars, dspVars, hookVars, envVars, respHist>>

\* Transcripts of the user's speech as the service reports them ("" = none).
UserTranscripts == {"", "speech"}

\* The callbacks the item-created handler makes for a user message whose
\* input_audio content carries the transcript t: revision 1 shows it, revision 2
\* has no case for the event.
ItemCreatedCallbacks(t) ==
  IF variant = 1 /\ t # "" THEN <<<<"onMessage", "user", t>>>> ELSE <<>>

\* conversation.item.created of the user's audio message, sent by the service
\* once the recording was committed.
ItemCreated(s, t) ==
  /\ readyState[s] = "OPEN"
  /\ stopped
  /\ Obs("item.created", <<>>, ItemCreatedCallbacks(t))
  /\ UNCHANGED <<variant, pageVars, apiVars, callVars, dspVars, hookVars, playVars, envVars, respHist>>

\* The callbacks the transcription-completed handler makes: the transcript, when
\* the event has one, is shown as a user message (both revisions).
CompletedCallbacks(t) ==
  IF t # "" THEN <<<<"onMessage", "user", t>>>> ELSE <<>>

\* conversation.item.input_audio_transcription.completed (revision 2: also under
\* its two other names), sent by the service once the recording was committed.
TranscriptionCompleted(s, t) ==
  /\ readyState[s] = "OPEN"
  /\ stopped
  /\ Obs("transcription.completed", <<>>, CompletedCallbacks(t))
  /\ UNCHANGED <<variant, pageVars, apiVars, callVars, dspVars, hookVars, playVars, envVars, respHist>>

\* Messages of the error events the service sends.
ErrorMessages == {"rate_limit_exceeded", "server_error"}

\* A plausible slip: the error event is only logged.
ErrorCallbacksNone(m) == <<>>

\* The callback the error case makes: config.onError(new Error(data.error.message)).
ErrorCallbacks(m) == <<<<"onError", m>>>>

\* error: an event of the service whose error object carries the message m.
ErrorEvent(s, m) ==
  /\ readyState[s] = "OPEN"
  /\ ObsArg("error", m, <<>>, ErrorCallbacks(m))
  /\ UNCHANGED <<variant, pageVars, apiVars, callVars, dspVars, hookVars, playVars, envVars, respHist>>

\* ------------------------------------------------------- function-call round trip
\* response.function_call_arguments.done up to await fetch('/api/functions'): the
\* caller is told, the request leaves.  The service numbers its calls; the
\* call_id of this event is the next number.  The argument payload is well-formed JSON.
FunctionCall(s) ==
  /\ readyState[s] = "OPEN"
  /\ nCalls < MaxCalls
  /\ nCalls' = nCalls + 1
  /\ fetches' = fetches \cup {<<s, nCalls + 1>>}
  /\ Obs("function_call", <<>>, <<<<"onFunctionCall", nCalls + 1>>>>)
  /\ UNCHANGED <<variant, pageVars, apiVars, dspVars, hookVars, playVars, envVars, respHist>>

\* A plausible slip: the call_id is read from state shared by all round trips.
OutputFrameLatest(s, c) ==
  IF readyState[s] = "OPEN" THEN <<<<s, "function_call_output", nCalls>>>> ELSE <<>>

\* ws.send of the function_call_output item for call c on the socket the event
\* came in on; a socket closed in the meantime drops it.
OutputFrame(s, c) ==
  IF readyState[s] = "OPEN" THEN <<<<s, "function_call_output", c>>>> ELSE <<>>

\* /api/functions answers 200 {result}: the output item is sent.
FunctionOk(s, c) ==
  /\ <<s, c>> \in fetches
  /\ fetches' = fetches \ {<<s, c>>}
  /\ Obs("function.ok", OutputFrame(s, c), <<>>)
  /\ UNCHANGED <<variant, pageVars, apiVars, nCalls, dspVars, hookVars, playVars, envVars, respHist>>

\* /api/functions answers 401 or 500 with a JSON body {error} and no result:
\* fetch resolves, r.json() parses, nothing throws, and the output item is sent
\* with output JSON.stringify(undefined).
FunctionErrorResponse(s, c) ==
  /\ <<s, c>> \in fetches
  /\ fetches' = fetches \ {<<s, c>>}
  /\ Obs("function.error", OutputFrame(s, c), <<>>)
  /\ UNCHANGED <<variant, pageVars, apiVars, nCalls, dspVars, hookVars, playVars, envVars, respHist>>

\* fetch rejects or the body is not JSON: the catch block logs it.
FunctionThrows(s, c) ==
  /\ <<s, c>> \in fetches
  /\ fetches' = fetches \ {<<s, c>>}
  /\ Obs("function.throws", <<>>, <<>>)
  /\ UNCHANGED <<variant, pageVars, apiVars, nCalls, dspVars, hookVars, playVars, envVars, respHist>>

\* ------------------------------------------------------------------ resampling
\* Sample values, and the buffers onaudioprocess hands to resampleAudio.
Samples == {-1, 0, 1}
Buffers == UNION {[1..n -> Samples] : n \in 0..MaxSamples}

\* Sample rates of the capture context: the service's rate and twice it (48 kHz).
SourceRates == {TargetRate, 2 * TargetRate}

\* A plausible slip: the length is truncated instead of rounded.
NewLengthFloor(n, src, dst) == (n * dst) \div src

\* Math.round(audioData.length / (sourceSampleRate / targetSampleRate)):
\* Math.round rounds a half up.
NewLength(n, src, dst) == (2 * n * dst + src) \div (2 * src)

\* resampleAudio(audioData, sourceSampleRate, targetSampleRate), indices from 1:
\* the input itself when the rates are equal, else linear interpolation at
\* position i * ratio (exact here, where the fraction is a multiple of 1/dst
\* and vanishes for whole ratios).
resampleAudio(audioData, src, dst) ==
  IF src = dst THEN audioData
  ELSE [i \in 1..NewLength(Len(audioData), src, dst) |->
          LET index    == ((i - 1) * src) \div dst
              fraction == ((i - 1) * src) % dst
          IN IF index + 1 < Len(audioData)
               THEN (audioData[index + 1] * (dst - fraction)
                     + audioData[index + 2] * fraction) \div dst
               ELSE audioData[index + 1]]

\* One call of resampleAudio, as onaudioprocess makes it for a frame.
Resample(data, rate) ==
  /\ resampleIn' = data
  /\ resampleRate' = rate
  /\ resampleOut' = resampleAudio(data, rate, TargetRate)
  /\ Obs("resample", <<>>, <<>>)
  /\ UNCHANGED <<variant, pageVars, apiVars, callVars, hookVars, playVars, envVars, respHist>>

\* ------------------------------------------------------------- the chat page
\* cache.get(key) of the conversation's entry: null when there is none or when
\* it is older than the time to live (it is then deleted).
CacheGet == IF cacheData # <<>> /\ cacheFresh THEN cacheData ELSE <<>>

\* loadConversation() up to its return or its await: a cached copy is shown as
\* it is; otherwise the conversation is fetched.
loadConversation ==
  /\ IF CacheGet # <<>>
       THEN /\ messages' = CacheGet[1]
            /\ UNCHANGED <<cacheData, cacheFresh, loading>>
            /\ ObsArg("loadConversation", "hit", <<>>, <<>>)
       ELSE /\ ~loading
            /\ cacheData' = <<>> /\ cacheFresh' = FALSE
            /\ loading' = TRUE
            /\ UNCHANGED messages
            /\ ObsArg("loadConversation", "miss", <<>>, <<>>)
  /\ UNCHANGED <<variant, apiVars, callVars, dspVars, hookVars, playVars, envVars, respHist>>
  /\ UNCHANGED <<stored, sending>>

\* The fetch of loadConversation() answers: cache.set, setMessages.
ConversationFetched ==
  /\ loading
  /\ loading' = FALSE
  /\ cacheData' = <<stored>> /\ cacheFresh' = TRUE
  /\ messages' = stored
  /\ Obs("conversation.fetched", <<>>, <<>>)
  /\ UNCHANGED <<variant, apiVars, callVars, dspVars, hookVars, playVars, envVars, respHist>>
  /\ UNCHANGED <<stored, sending>>

\* The fetch of loadConversation() fails: the catch block logs it.
ConversationFetchFails ==
  /\ loading
  /\ loading' = FALSE
  /\ Obs("conversation.failed", <<>>, <<>>)
  /\ UNCHANGED <<variant, apiVars, callVars, dspVars, hookVars, playVars, envVars, respHist>>
  /\ UNCHANGED <<stored, cacheData, cacheFresh, messages, sending>>

\* Five minutes pass: the entry is older than the cache's default time to live.
CacheAges ==
  /\ cacheData # <<>> /\ cacheFresh
  /\ cacheFresh' = FALSE
  /\ Obs("cache.aged", <<>>, <<>>)
  /\ UNCHANGED <<variant, apiVars, callVars, dspVars, hookVars, playVars, envVars, respHist>>
  /\ UNCHANGED <<stored, cacheData, loading, messages, sending>>

\* The onMessage callback the page hands to useRealtime, called by the hook for
\* a user or an assistant message: the message is saved to the conversation and
\* added to the messages shown.  The cache is not touched.
onMessage ==
  /\ stored < MaxMessages
  /\ stored' = stored + 1
  /\ messages' = messages + 1
  /\ Obs("page.onMessage", <<>>, <<>>)
  /\ UNCHANGED <<variant, apiVars, callVars, dspVars, hookVars, playVars, envVars, respHist>>
  /\ UNCHANGED <<cacheData, cacheFresh, loading, sending>>

\* handleSendText() for a non-empty input up to the end of its first await: the
\* user's message is shown and saved.  The handler reads realtime.isConnected
\* from the render it was created in, that is its value at the call.
handleSendText(text) ==
  /\ sending = <<>>
  /\ stored < MaxMessages
  /\ stored' = stored + 1
  /\ messages' = messages + 1
  /\ sending' = <<text, isConnected>>
  /\ ObsArg("handleSendText", text, <<>>, <<>>)
  /\ UNCHANGED <<variant, apiVars, callVars, dspVars, hookVars, playVars, envVars, respHist>>
  /\ UNCHANGED <<cacheData, cacheFresh, loading>>

\* handleSendText() continues, connected: realtime.sendMessage(messageText).
SendTextRealtime ==
  /\ sending # <<>> /\ sending[2]
  /\ sending' = <<>>
  /\ ObsArg("sendMessage", sending[1], SendFrames(sending[1]), <<>>)
  /\ UNCHANGED <<variant, apiVars, callVars, dspVars, hookVars, playVars, envVars, respHist>>
  /\ UNCHANGED <<stored, cacheData, cacheFresh, loading, messages>>

\* handleSendText() continues, not connected, and /api/chat answers: the
\* assistant's message is shown and saved, the conversation's entry invalidated.
SendTextChatAnswered ==
  /\ sending # <<>> /\ ~sending[2]
  /\ stored < MaxMessages
  /\ sending' = <<>>
  /\ stored' = stored + 1
  /\ messages' = messages + 1
  /\ cacheData' = <<>>
  /\ Obs("chat.answered", <<>>, <<>>)
  /\ UNCHANGED <<variant, apiVars, callVars, dspVars, hookVars, playVars, envVars, respHist>>
  /\ UNCHANGED <<cacheFresh, loading>>

\* handleSendText() continues, not connected, and /api/chat fails: the catch
\* block shows an error message, which is not saved; nothing is invalidated.
SendTextChatFails ==
  /\ sending # <<>> /\ ~sending[2]
  /\ messages <= MaxMessages
  /\ sending' = <<>>
  /\ messages' = messages + 1
  /\ Obs("chat.failed", <<>>, <<>>)
  /\ UNCHANGED <<variant, apiVars, callVars, dspVars, hookVars, playVars, envVars, respHist>>
  /\ UNCHANGED <<stored, cacheData, cacheFresh, loading>>

\* ------------------------------------------------------- POST /api/functions
\* const userId = user?.userId || args.userId
RouteUserId(req) == IF req.session # "" THEN req.session ELSE req.userId

\* conversationId: conversationId || args.conversationId
RouteConversationId(req) ==
  IF req.conversationId # "" THEN req.conversationId ELSE req.argsConversationId

\* The answer of POST to a request whose body has an arguments object: 401
\* without a userId from either place; 500 when handleFunctionCall throws
\* (unknown name); else the function runs with the enriched arguments.
POST(req) ==
  IF RouteUserId(req) = "" THEN [status |-> 401, ran |-> <<>>]
  ELSE IF req.name \notin KnownFunctions THEN [status |-> 500, ran |-> <<>>]
  ELSE [status |-> 200,
        ran |-> <<req.name, RouteUserId(req), RouteConversationId(req)>>]

\* One request to /api/functions: getCurrentUser() gives the session's user
\* ("" for no valid auth-token cookie); the body carries the name, the
\* arguments (with or without a userId and a conversationId) and a conversationId.
PostFunctions(req) ==
  /\ request' = req
  /\ response' = POST(req)
  /\ executed' = IF POST(req).ran # <<>> THEN executed \cup {POST(req).ran} ELSE executed
  /\ Obs("POST /api/functions", <<>>, <<>>)
  /\ UNCHANGED <<variant, pageVars, callVars, dspVars, hookVars, playVars, envVars, respHist>>

\* The requests a client can make.
Requests ==
  [session : MaybeUsers, name : FunctionNames, userId : MaybeUsers,
   conversationId : MaybeConversations, argsConversationId : MaybeConversations]

\* ------------------------------------------------------------ passage of time
\* The playback context's clock advances.
Tick ==
  /\ playbackAudioContext
  /\ currentTime < MaxTime
  /\ currentTime' = currentTime + 1
  /\ Obs("tick", <<>>, <<>>)
  /\ UNCHANGED <<variant, pageVars, apiVars, callVars, dspVars, hookVars, envVars, respHist>>
  /\ UNCHANGED <<playbackAudioContext, audioQueue, nextPlayTime, lastSched>>

\* source.onended of the i-th queued source: it has played out and leaves the queue.
SourceEnded(i) ==
  /\ i \in 1..Len(audioQueue)
  /\ audioQueue[i][1] + audioQueue[i][2] <= currentTime
  /\ audioQueue' = [j \in 1..(Len(audioQueue) - 1) |->
                      IF j < i THEN audioQueue[j] ELSE audioQueue[j + 1]]
  /\ Obs("onended", <<>>, <<>>)
  /\ UNCHANGED <<variant, pageVars, apiVars, callVars, dspVars, hookVars, envVars, respHist>>
  /\ UNCHANGED <<playbackAudioContext, nextPlayTime, currentTime, lastSched>>

\* ------------------------------------------------------------ specifications
\* Everything at once.
Next ==
  \/ Connect
  \/ TokenOk
  \/ TokenFail
  \/ \E s \in Sockets : SocketOpen(s)
  \/ \E s \in Sockets : SocketError(s)
  \/ \E s \in Sockets : SocketClose(s)
  \/ Disconnect
  \/ StartRecording
  \/ MicGranted
  \/ MicDenied
  \/ \E k \in Captures : AudioProcess(k)
  \/ RecognitionResult
  \/ StopRecording
  \/ \E text \in Texts : SendMessage(text)
  \/ \E s \in Sockets : SessionCreated(s)
  \/ \E s \in Sockets : ResponseCreated(s)
  \/ \E s \in Sockets, d \in Deltas : TranscriptDelta(s, d)
  \/ \E s \in Sockets : TranscriptDone(s)
  \/ \E s \in Sockets, t \in Transcripts : ItemDone(s, t)
  \/ \E s \in Sockets : ResponseDone(s)
  \/ \E s \in Sockets : SpeechStopped(s)
  \/ \E s \in Sockets, n \in 0..MaxDur : AudioDelta(s, n)
  \/ Tick
  \/ \E i \in 1..(MaxTime + MaxDur) : SourceEnded(i)
  \/ \E s \in Sockets, m \in ErrorMessages : ErrorEvent(s, m)
  \/ \E s \in Sockets, t \in UserTranscripts : ItemCreated(s, t)
  \/ \E s \in Sockets, t \in UserTranscripts : TranscriptionCompleted(s, t)
  \/ \E s \in Sockets : FunctionCall(s)
  \/ \E s \in Sockets, c \in 1..MaxCalls : FunctionOk(s, c)
  \/ \E s \in Sockets, c \in 1..MaxCalls : FunctionErrorResponse(s, c)
  \/ \E s \in Sockets, c \in 1..MaxCalls : FunctionThrows(s, c)
  \/ \E data \in Buffers, rate \in SourceRates : Resample(data, rate)
  \/ loadConversation
  \/ ConversationFetched
  \/ ConversationFetchFails
  \/ CacheAges
  \/ onMessage
  \/ \E text \in Texts : handleSendText(text)
  \/ SendTextRealtime
  \/ SendTextChatAnswered
  \/ SendTextChatFails
  \/ \E req \in Requests : PostFunctions(req)

Spec == Init /\ [][Next]_vars

\* The connection alone: connect(), disconnect(), sendMessage(), the transport's
\* events and the service's session.created.
NextConnection ==
  \/ Connect
  \/ TokenOk
  \/ TokenFail
  \/ \E s \in Sockets : SocketOpen(s)
  \/ \E s \in Sockets : SocketError(s)
  \/ \E s \in Sockets : SocketClose(s)
  \/ Disconnect
  \/ \E text \in Texts : SendMessage(text)
  \/ \E s \in Sockets : SessionCreated(s)

SpecConnection == Init /\ [][NextConnection]_vars

\* Recording turns on a connection: the caller's operations, the microphone, the
\* transport opening and closing, and the service's response lifecycle events.
NextRecording ==
  \/ Connect
  \/ TokenOk
  \/ \E s \in Sockets : SocketOpen(s)
  \/ \E s \in Sockets : SocketClose(s)
  \/ Disconnect
  \/ StartRecording
  \/ MicGranted
  \/ MicDenied
  \/ \E k \in Captures : AudioProcess(k)
  \/ StopRecording
  \/ \E s \in Sockets : ResponseCreated(s)
  \/ \E s \in Sockets : ResponseDone(s)
  \/ \E s \in Sockets : SpeechStopped(s)

SpecRecording == Init /\ [][NextRecording]_vars

\* Recording turns on a standing connection: the recording operations and the
\* service's response events, with the transport held open.
NextTurns ==
  \/ StartRecording
  \/ MicGranted
  \/ MicDenied
  \/ \E k \in Captures : AudioProcess(k)
  \/ StopRecording
  \/ \E s \in Sockets : ResponseCreated(s)
  \/ \E s \in Sockets : ResponseDone(s)
  \/ \E s \in Sockets : SpeechStopped(s)

SpecTurns == InitConnected /\ [][NextTurns]_vars

\* Assistant transcripts on a standing connection: recording turns
\* (startRecording() clears the accumulator when it cancels) and the service's
\* response and transcript events.
NextTranscript ==
  \/ StartRecording
  \/ MicGranted
  \/ StopRecording
  \/ \E s \in Sockets : ResponseCreated(s)
  \/ \E s \in Sockets, d \in Deltas : TranscriptDelta(s, d)
  \/ \E s \in Sockets : TranscriptDone(s)
  \/ \E s \in Sockets, t \in Transcripts : ItemDone(s, t)
  \/ \E s \in Sockets : ResponseDone(s)

SpecTranscript == InitConnected /\ [][NextTranscript]_vars

\* The assistant's side of a standing connection: the service's response and
\* transcript events, and the barge-in that cancels a response.
NextAssistant ==
  \/ StartRecording
  \/ MicGranted
  \/ \E s \in Sockets : ResponseCreated(s)
  \/ \E s \in Sockets, d \in Deltas : TranscriptDelta(s, d)
  \/ \E s \in Sockets : TranscriptDone(s)
  \/ \E s \in Sockets, t \in Transcripts : ItemDone(s, t)
  \/ \E s \in Sockets : ResponseDone(s)

SpecAssistant == InitConnected /\ [][NextAssistant]_vars

\* Playback on a standing connection: audio deltas, time, and the operations
\* that stop playback.
NextPlayback ==
  \/ Disconnect
  \/ StartRecording
  \/ MicGranted
  \/ StopRecording
  \/ \E s \in Sockets, n \in 0..MaxDur : AudioDelta(s, n)
  \/ Tick
  \/ \E i \in 1..(MaxTime + MaxDur) : SourceEnded(i)

SpecPlayback == InitConnected /\ [][NextPlayback]_vars

\* Barge-in on a standing connection: the assistant's audio is playing or still
\* arriving while the user starts and stops recordings.
NextBargeIn ==
  \/ StartRecording
  \/ MicGranted
  \/ \E k \in Captures : AudioProcess(k)
  \/ StopRecording
  \/ \E s \in Sockets : ResponseCreated(s)
  \/ \E s \in Sockets, n \in 1..MaxDur : AudioDelta(s, n)
  \/ Tick
  \/ \E i \in 1..(MaxTime + MaxDur) : SourceEnded(i)

SpecBargeIn == InitConnected /\ [][NextBargeIn]_vars

\* handleVoiceToggle of the chat page, the microphone button: it stops the
\* recording while isRecording and starts one otherwise.  (Not connected, it
\* would call connect() first; the page connects when it loads.)
handleVoiceToggle ==
  IF isRecording THEN StopRecording
                 ELSE isConnected /\ StartRecording

\* The user's voice turns on a standing connection, driven by the page's
\* microphone button: recordings, the browser's speech recognition and the
\* service's reports of the user's item.
NextUserTurns ==
  \/ handleVoiceToggle
  \/ MicGranted
  \/ \E k \in Captures : AudioProcess(k)
  \/ RecognitionResult
  \/ \E s \in Sockets, t \in UserTranscripts : ItemCreated(s, t)
  \/ \E s \in Sockets, t \in UserTranscripts : TranscriptionCompleted(s, t)

SpecUserTurns == InitConnected /\ [][NextUserTurns]_vars

\* The chat page over a connection that can close: loads of the conversation,
\* messages of the realtime session, text turns on either path.
NextPage ==
  \/ loadConversation
  \/ ConversationFetched
  \/ ConversationFetchFails
  \/ CacheAges
  \/ onMessage
  \/ \E text \in Texts : handleSendText(text)
  \/ SendTextRealtime
  \/ SendTextChatAnswered
  \/ SendTextChatFails
  \/ \E s \in Sockets : SocketClose(s)

SpecPage == InitConnected /\ [][NextPage]_vars

\* The function route on its own: every request, in any order.
NextApi == \E req \in Requests : PostFunctions(req)

SpecApi == Init /\ [][NextApi]_vars

\* Errors of every kind: the token, the transport, the microphone, the service.
NextErrors ==
  \/ Connect
  \/ TokenOk
  \/ TokenFail
  \/ \E s \in Sockets : SocketOpen(s)
  \/ \E s \in Sockets : SocketError(s)
  \/ \E s \in Sockets : SocketClose(s)
  \/ StartRecording
  \/ MicGranted
  \/ MicDenied
  \/ \E k \in Captures : AudioProcess(k)
  \/ SendMessage("hello")
  \/ \E s \in Sockets, m \in ErrorMessages : ErrorEvent(s, m)

SpecErrors == Init /\ [][NextErrors]_vars

\* Function calls on a standing connection, with the events and operations
\* that can be handled while a round trip is pending.
NextFunctions ==
  \/ \E s \in Sockets : FunctionCall(s)
  \/ \E s \in Sockets, c \in 1..MaxCalls : FunctionOk(s, c)
  \/ \E s \in Sockets, c \in 1..MaxCalls : FunctionErrorResponse(s, c)
  \/ \E s \in Sockets, c \in 1..MaxCalls : FunctionThrows(s, c)
  \/ Connect
  \/ TokenOk
  \/ \E s \in Sockets : SocketOpen(s)
  \/ \E s \in Sockets : SocketClose(s)
  \/ Disconnect
  \/ \E text \in Texts : SendMessage(text)
  \/ \E s \in Sockets : ResponseCreated(s)
  \/ \E s \in Sockets : ResponseDone(s)

SpecFunctions == InitConnected /\ [][NextFunctions]_vars

\* Function-call round trips and what can happen to the connection while one
\* is pending: a text turn, a close, a disconnect(), a reconnect.
NextRoundTrips ==
  \/ \E s \in Sockets : FunctionCall(s)
  \/ \E s \in Sockets, c \in 1..MaxCalls : FunctionOk(s, c)
  \/ \E s \in Sockets, c \in 1..MaxCalls : FunctionErrorResponse(s, c)
  \/ \E s \in Sockets, c \in 1..MaxCalls : FunctionThrows(s, c)
  \/ Connect
  \/ TokenOk
  \/ \E s \in Sockets : SocketOpen(s)
  \/ \E s \in Sockets : SocketClose(s)
  \/ Disconnect
  \/ SendMessage("hello")

SpecRoundTrips == InitConnected /\ [][NextRoundTrips]_vars

\* resampleAudio on every buffer and rate.
NextResample == \E data \in Buffers, rate \in SourceRates : Resample(data, rate)

SpecResample == Init /\ [][NextResample]_vars

\* ------------------------------------------------------------------ properties
\* Number of frames of one type among the frames a step sent.
Sent(type) == Cardinality({i \in 1..Len(out) : out[i][2] = type})

\* Position of the first frame of a type among the frames a step sent (0: none).
FirstSent(type) ==
  IF Sent(type) = 0 THEN 0
  ELSE CHOOSE i \in 1..Len(out) :
         /\ out[i][2] = type
         /\ \A j \in 1..(i - 1) : out[j][2] # type

\* Sockets whose events the browser still dispatches to the hook's handlers.
Dispatching == {s \in Sockets : readyState[s] \in {"CONNECTING", "OPEN"}}

\* C1: when stopRecording() is called twice in a row with the transport open,
\* the second call sends nothing (the first alone sent the commit and the
\* response.create).
C1_SecondStopSendsNothing ==
  (op = "stopRecording" /\ again /\ WsOpen) => out = <<>>

C4_NoCancelWithoutResponse ==
  [][/\ (op' = "startRecording" /\ isConnected /\ WsOpen /\ inFlight = "none")
          => Sent("response.cancel")' = 0
     /\ (op' = "micGranted") => isRecording']_vars

\* C5: a chunk scheduled by an audio delta starts no earlier than the chunk
\* scheduled before it ends (its start plus its duration), so starts never
\* decrease and chunks never overlap.
C5_ChunksInOrder ==
  [][(op' = "audio.delta" /\ Len(audioQueue') > Len(audioQueue) /\ lastSched # <<>>)
       => lastSched'[1] >= lastSched[1] + lastSched[2]]_vars

\* C5 happens: an audio delta has queued a chunk right behind another one that
\* has not played out yet.
C5_Witness ==
  /\ op = "audio.delta"
  /\ Len(audioQueue) >= 2
  /\ lastSched = audioQueue[Len(audioQueue)]
  /\ lastSched[1] > currentTime

\* C6: at any time at most one connection is open or opening with its events
\* dispatched to the hook.
C6_OneConnection == Cardinality(Dispatching) <= 1

\* C7: a startRecording() call made while the session is not connected never
\* sets isRecording, here when the microphone is granted right after the call.
C7_NoRecordingWhenDisconnected ==
  [][(op = "startRecording" /\ ~isConnected /\ op' = "micGranted") => ~isRecording']_vars

\* C8: isRecording never stays true without isConnected: a step that clears
\* isConnected during a recording (transport close or error) leaves no
\* isRecording behind.
C8_RecordingEndsWithConnection ==
  [][(isRecording /\ isConnected /\ ~isConnected') => ~isRecording']_vars

\* C9: after disconnect() the transport handle is cleared, no microphone capture
\* runs, the playback queue is empty and both flags are false; a second
\* disconnect() right after it changes nothing and sends nothing.
C9_DisconnectIdempotent ==
  [][/\ (op' = "disconnect")
          => /\ wsRef' = 0
             /\ live' = {}
             /\ audioQueue' = <<>>
             /\ ~isConnected' /\ ~isRecording'
     /\ (op = "disconnect" /\ op' = "disconnect")
          => /\ out' = <<>>
             /\ UNCHANGED <<hookVars, playVars, envVars>>]_vars

\* C10: when a connection opens isConnected becomes true; no connection is ever
\* sent more than one session.update, and a connection the service has
\* announced (session.created) has been sent exactly one.
C10_OneSessionUpdate ==
  [][/\ (op' = "onopen") => isConnected'
     /\ \A s \in Sockets :
          /\ updates'[s] <= 1
          /\ (s \in sessionCreated' /\ readyState'[s] = "OPEN") => updates'[s] = 1]_vars

\* C10 happens: the first connection is open, announced and configured once.
C10_Witness ==
  /\ isConnected
  /\ WsOpen
  /\ wsRef \in sessionCreated
  /\ updates[wsRef] = 1

\* Whether the step's callbacks include one of the given kind.
Called(kind) == \E i \in 1..Len(cbs) : cbs[i][1] = kind

\* Whether the step delivered an assistant message.
AssistantCalled ==
  \E i \in 1..Len(cbs) : cbs[i][1] = "onMessage" /\ cbs[i][2] = "assistant"

\* C11: an inbound error event invokes onError exactly once, with the event's
\* message, and changes nothing of the session: both flags, the handle and
\* every socket's state stay as they were.
C11_ErrorEventSurfaced ==
  [][(op' = "error")
       => /\ cbs' = <<<<"onError", arg'>>>>
          /\ out' = <<>>
          /\ UNCHANGED <<isConnected, isRecording, wsRef, readyState>>]_vars

\* C11 happens: an error event was handled in Connected and the session still is.
C11_Witness ==
  /\ op = "error"
  /\ arg = "rate_limit_exceeded"
  /\ Called("onError")
  /\ isConnected /\ WsOpen

\* C12: a socket error or close event clears isConnected and starts no
\* connection: a connect() call is put in flight only by the caller, and a
\* transport is created only by the continuation of such a call.
C12_NoAutoReconnect ==
  [][/\ (op' \in {"onerror", "onclose"}) => ~isConnected'
     /\ (pendingConnect' > pendingConnect) => op' = "connect"
     /\ (readyState' # readyState /\ NumSockets' # NumSockets)
          => (op' = "tokenOk" /\ pendingConnect' = pendingConnect - 1)]_vars

\* C12 happens: the only transport was lost and nothing is on its way.
C12_Witness ==
  /\ op \in {"onerror", "onclose"}
  /\ ~isConnected
  /\ pendingConnect = 0
  /\ Dispatching = {}

\* C13: every error - token failure, transport error, microphone denial,
\* service error event - makes the step that handles it invoke onError.
C13_EveryErrorCallsOnError ==
  [][(op' \in {"tokenFail", "onerror", "micDenied", "error"}) => Called("onError")']_vars

\* C14: a failed token request creates no transport, sends nothing, leaves
\* isConnected and the handle as they were, is reported through onError, and
\* ends its connect() call without starting another.
C14_TokenFailureSurfaced ==
  [][(op' = "tokenFail")
       => /\ UNCHANGED <<readyState, wsRef, isConnected>>
          /\ out' = <<>>
          /\ cbs' = <<<<"onError", "token">>>>
          /\ pendingConnect' = pendingConnect - 1]_vars

\* C14 happens: the first connect() failed on its token and the session is idle.
C14_Witness ==
  /\ op = "tokenFail"
  /\ Called("onError")
  /\ ~isConnected /\ wsRef = 0 /\ NumSockets = 0 /\ pendingConnect = 0

\* C15: a denied microphone leaves isRecording as it was, creates no capture
\* and leaves the connection alone; a sendMessage() right after it on the open
\* connection sends its conversation.item.create and its response.create.
C15_DenialKeepsConnection ==
  [][/\ (op' = "micDenied")
          => /\ UNCHANGED <<isRecording, live, nCaptures, streamRef, processorRef>>
             /\ UNCHANGED <<isConnected, wsRef, readyState>>
             /\ out' = <<>>
     /\ (op = "micDenied" /\ WsOpen /\ op' = "sendMessage")
          => out' = <<<<wsRef, "conversation.item.create", "user", arg'>>,
                      Msg(wsRef, "response.create")>>]_vars

\* C15 happens: text was sent on the open connection right after a denial.
C15_Witness ==
  /\ op = "sendMessage"
  /\ error = "Failed to access microphone"
  /\ ~isRecording /\ live = {}
  /\ Sent("conversation.item.create") = 1 /\ Sent("response.create") = 1

\* What a function-call event does in either reading of C16: onFunctionCall
\* once with the event's call, one request to the collaborator.
FunctionCallDispatched ==
  (op' = "function_call")
    => /\ nCalls' = nCalls + 1
       /\ cbs' = <<<<"onFunctionCall", nCalls'>>>>
       /\ \E s \in Sockets : /\ <<s, nCalls'>> \notin fetches
                             /\ fetches' = fetches \cup {<<s, nCalls'>>}

C17_NoOutputOnFailure ==
  [][(op' \in {"function.error", "function.throws"})
       => /\ Sent("function_call_output")' = 0
          /\ UNCHANGED <<isConnected, wsRef, readyState>>]_vars

\* C18: from twice the target rate (48000 Hz to 24000 Hz) an N-sample buffer
\* gives round(N/2) samples; from the target rate itself the input comes back
\* unchanged.
C18_ResampleLength ==
  /\ (resampleRate = 2 * TargetRate)
       => Len(resampleOut) = (Len(resampleIn) + 1) \div 2
  /\ (resampleRate = TargetRate) => resampleOut = resampleIn

\* C18 happens: an odd-length buffer was halved, its half rounded up.
C18_Witness ==
  /\ op = "resample"
  /\ resampleRate = 2 * TargetRate
  /\ Len(resampleIn) = 3
  /\ Len(resampleOut) = 2

\* C19: handling a transcript delta delivers no assistant message; assistant
\* messages are delivered only by the transcript-done and item-done handlers.
C19_NoPartialMessages ==
  [][/\ (op' = "transcript.delta") => cbs' = <<>>
     /\ AssistantCalled' => op' \in {"transcript.done", "item.done"}]_vars

\* C19 happens: a delta was accumulated in silence.
C19_Witness ==
  /\ op = "transcript.delta"
  /\ currentTranscriptRef # <<>>
  /\ cbs = <<>>

\* C20: the assistant message a transcript-done event delivers is the in-order
\* concatenation of exactly the deltas received since the last response.created
\* (here for a response whose deltas all came before its completion events),
\* and the accumulator is empty after every response.created and every flush.
C20_MessageIsWholeTranscript ==
  [][/\ (op' = "transcript.done" /\ cbs' # <<>> /\ ~lateDelta)
          => cbs' = <<<<"onMessage", "assistant", sinceCreated>>>>
     /\ (op' \in {"response.created", "transcript.done"})
          => currentTranscriptRef' = <<>>]_vars

\* C21: sendMessage(text) called with the transport open sends exactly two
\* frames, in this order: a conversation.item.create carrying the text as a
\* user message, then a response.create; called with the transport not open it
\* sends nothing.  Either way no state of the hook, of playback or of the
\* browser's side changes.
C21_SendMessageFrames ==
  [][op' = "sendMessage"
       => /\ WsOpen => out' = <<<<wsRef, "conversation.item.create", "user", arg'>>,
                                 <<wsRef, "response.create">>>>
          /\ ~WsOpen => out' = <<>>
          /\ UNCHANGED <<hookVars, playVars, envVars>>]_vars

\* C21 happens: a text has just been sent on the open transport.
C21_Witness ==
  /\ op = "sendMessage"
  /\ arg = "bye"
  /\ WsOpen
  /\ Len(out) = 2

\* C22: a startRecording() call made with the transport open sends
\* input_audio_buffer.clear exactly once, while the capture of the new recording
\* does not exist yet, so that no frame of it has been or is appended before the
\* clear; and it stops all queued playback: right after the step the playback
\* queue is empty.
C22_ClearAndStopPlayback ==
  [][(op' = "startRecording" /\ WsOpen)
       => /\ Sent("input_audio_buffer.clear")' = 1
          /\ Sent("input_audio_buffer.append")' = 0
          /\ nCaptures' = nCaptures /\ live' = live
          /\ pendingMic' = pendingMic + 1
          /\ audioQueue' = <<>>]_vars

\* C22 happens: the first startRecording() of the session has just run while a
\* chunk of the assistant's audio was queued (the playback clock has not moved,
\* so no chunk has played out).
C22_Witness ==
  /\ op = "startRecording"
  /\ nCaptures = 0 /\ pendingMic = 1
  /\ playbackAudioContext /\ currentTime = 0
  /\ Sent("input_audio_buffer.clear") = 1
  /\ audioQueue = <<>>

\* C23 as stated: the playback cursor never decreases, whatever audio-delta
\* events, startRecording() calls and disconnect() calls are handled.
C23_CursorNeverDecreases == [][nextPlayTime' >= nextPlayTime]_vars

\* C23, amended: the cursor never decreases over audio-delta events; the only
\* steps that lower it are startRecording() with the transport open and
\* disconnect(), which set it to 0 while they stop and drop every queued source,
\* so that nothing already scheduled can overlap what is scheduled next.
C23_CursorMonotoneBetweenStops ==
  [][/\ op' = "audio.delta" => nextPlayTime' >= nextPlayTime
     /\ nextPlayTime' < nextPlayTime
          => /\ op' \in {"startRecording", "disconnect"}
             /\ op' = "startRecording" => WsOpen
             /\ nextPlayTime' = 0
             /\ audioQueue' = <<>>]_vars

\* C23 happens: after a startRecording() had reset the cursor, a chunk has been
\* scheduled at the playback clock's time and the cursor stands at its end.
C23_Witness ==
  /\ op = "audio.delta"
  /\ pendingMic + nCaptures > 0
  /\ currentTime = 1
  /\ audioQueue = <<<<1, 1>>>>
  /\ nextPlayTime = 2

\* C24: once stopRecording() has returned, no input_audio_buffer.append is sent
\* until startRecording() is called again, however the calls of the two and the
\* microphone's answers interleave.
C24_NoAppendAfterStop ==
  [][(op' = "onaudioprocess" /\ stopped)
       => Sent("input_audio_buffer.append")' = 0]_vars

\* C25: when disconnect() is called while a connect() still awaits the token or
\* the socket's handshake, that connect() leaves no live connection behind: as
\* long as connect() is not called again the adapter is not connected on an
\* open transport.
C25_DisconnectEndsPendingConnect ==
  abandoned => ~(isConnected /\ WsOpen)

\* C26: isConnected is true only while the socket wsRef holds is open, and an
\* open, close or error event of any other socket (one that a later connect()
\* superseded or that disconnect() dropped) leaves isConnected as it was.
C26_ConnectedMeansHeldSocketOpen ==
  [][/\ isConnected' => WsOpen'
     /\ \A s \in Sockets :
          (op' \in {"onopen", "onclose", "onerror"}
             /\ readyState'[s] # readyState[s] /\ s # wsRef)
            => isConnected' = isConnected]_vars

\* C27: once startRecording() has cancelled a response, an audio delta that
\* arrives before the next response.created schedules nothing: the playback
\* queue and the cursor stay as they are.
C27_NoPlaybackAfterCancel ==
  [][(op' = "audio.delta" /\ inFlight = "cancelled")
       => /\ audioQueue' = audioQueue
          /\ nextPlayTime' = nextPlayTime]_vars

\* C28: a voice turn, from its startRecording() on, produces at most one
\* onMessage with role user, whichever of stopRecording(), the item-created
\* event and the transcription-completed event report it.
C28_OneUserMessagePerTurn ==
  (nCaptures + pendingMic > 0) => userCount <= 1

\* C29: once a message has been added to the conversation from the chat page
\* (a text send, or the realtime onMessage callback), a loadConversation() that
\* is served from the cache shows a copy with every message added so far.
C29_CachedCopyHasEveryMessage ==
  [][(op' = "loadConversation" /\ arg' = "hit") => messages' >= stored]_vars

\* C30: POST /api/functions runs a function only for a caller with a valid
\* session and as that session's user: without a session the answer is 401 and
\* nothing runs, and a userId in the arguments never decides for whom it runs.
C30_RunsOnlyAsSessionUser ==
  [][(op' = "POST /api/functions")
       => /\ request'.session = ""
               => (response'.status = 401 /\ executed' = executed)
          /\ response'.ran # <<>> => response'.ran[2] = request'.session]_vars

====
